---- MODULE Spec2Model ----
(***************************************************************************)
(* The gyroscope dashboard of src/app.py: the module-level data load and   *)
(* the single Dash callback update_graph, which recomputes a row window, a *)
(* chart and a summary from the five control values on every change.       *)
(***************************************************************************)
EXTENDS Integers, Sequences, FiniteSets

\* ---------------------------------------------------------------- bounds

\* Largest row count of a loaded CSV file (besides the 100-row data set).
MaxRows == 2
\* Largest sample count typed into the num-samples input (besides 10 and 100).
MaxSamples == 5
\* Largest value a button's n_clicks counter reaches.
MaxClicks == 2

\* dcc.Input(id='num-samples', value=100, min=1)
DefaultSamples == 100
MinSamples == 1

\* ------------------------------------------------------- small helpers

Min(a, b) == IF a < b THEN a ELSE b
Max(a, b) == IF a > b THEN a ELSE b

\* ------------------------------------------------------- control values

\* The three options of the graph-type dropdown, and a value that is none of them.
GraphTypes == {"scatter", "line", "distribution", "heatmap"}
\* The four options of the data-variables dropdown, and a value naming no column.
DataVariables == {"X", "Y", "Z", "all", "W"}
SampleCounts == (MinSamples..MaxSamples) \cup {10, DefaultSamples}

\* ------------------------------------------------------------ data load

\* The CSV files the loader may meet: absent, or present with X, Y, Z and
\* possibly Time, and any number of rows (a header-only file has none).
Files ==
    {[found |-> FALSE, rows |-> 0, columns |-> {}]}
    \cup [found : {TRUE},
          rows : (0..MaxRows) \cup {DefaultSamples},
          columns : {{"X", "Y", "Z"}, {"X", "Y", "Z", "Time"}}]

\* try: df = pd.read_csv('t6.csv')  except FileNotFoundError: df = pd.DataFrame()
ReadCsv(file) ==
    IF file.found
    THEN [len |-> file.rows, columns |-> file.columns]
    ELSE [len |-> 0, columns |-> {}]

\* if 'Time' not in df.columns: df['Time'] = df.index
LoadData(file) ==
    LET d == ReadCsv(file)
    IN  IF "Time" \notin d.columns
        THEN [d EXCEPT !.columns = d.columns \cup {"Time"}]
        ELSE d

VARIABLES
    df,              \* the loaded data set: its row count and its columns
    graph_type,      \* value of the graph-type dropdown
    data_variables,  \* value of the data-variables dropdown
    num_samples,     \* value of the num-samples input
    prev_clicks,     \* n_clicks of the Previous button
    next_clicks,     \* n_clicks of the Next button
    out,             \* what the last run of update_graph computed and returned
    memo             \* an earlier invocation kept for comparison (SpecMemo only)

vars == <<df, graph_type, data_variables, num_samples, prev_clicks, next_clicks,
          out, memo>>

\* --------------------------------------------------------- windowing

\* if next_clicks > 0 / if prev_clicks > 0
Clicked(n_clicks) == n_clicks > 0

\* start_idx = min(len(df) - num_samples, start_idx + num_samples)
NextAdjust(start_idx, samples, len) == Min(len - samples, start_idx + samples)

\* The Previous step left out.
PrevAdjustNone(start_idx, samples) == start_idx

\* start_idx = max(0, start_idx - num_samples)
PrevAdjust(start_idx, samples) == Max(0, start_idx - samples)

\* A cursor that advances with every click: the window start a persistent
\* position would give.
StartIdxCumulative(samples, prev, next, len) ==
    Max(0, Min(len - samples, (next - prev) * samples))

\* The start computed with the sample count of the previous invocation, as
\* if the handler kept it in a global between calls.
StartIdxStale(samples, prev, next, len) ==
    LET s0 == 0
        s1 == IF Clicked(next) THEN NextAdjust(s0, num_samples, len) ELSE s0
    IN  IF Clicked(prev) THEN PrevAdjust(s1, num_samples) ELSE s1

\* lines 85-89: the start index, recomputed from 0 on every call, with the
\* sample count as requested (the clamp of line 92 comes later).
StartIdx(samples, prev, next, len) ==
    LET s0 == 0
        s1 == IF Clicked(next) THEN NextAdjust(s0, samples, len) ELSE s0
    IN  IF Clicked(prev) THEN PrevAdjust(s1, samples) ELSE s1

\* if num_samples > len(df): num_samples = len(df)
ClampSamples(samples, len) == IF samples > len THEN len ELSE samples

\* Python's reading of one slice bound on a sequence of length len: a
\* negative bound counts from the end, and either is cut to 0..len.
SliceBound(i, len) == IF i < 0 THEN Max(i + len, 0) ELSE Min(i, len)

\* df.iloc[start:stop]: the row positions the slice selects.
ILoc(start, stop, len) ==
    {r \in 0..(len - 1) : SliceBound(start, len) <= r /\ r < SliceBound(stop, len)}

\* ------------------------------------------------------------- chart

\* px.scatter(): the empty plot returned when chart construction fails.
BlankFig == [kind |-> "scatter", x |-> "", y |-> <<>>, blank |-> TRUE]

Fig(kind, x, y) == [kind |-> kind, x |-> x, y |-> y, blank |-> FALSE]

\* 'all' read as the first column alone.
YVarsFirst(variables) == IF variables = "all" THEN <<"X">> ELSE <<variables>>

\* y_vars = ['X','Y','Z'] if data_variables == 'all' else [data_variables]
YVars(variables) ==
    IF variables = "all" THEN <<"X", "Y", "Z">> ELSE <<variables>>

Range(s) == {s[i] : i \in 1..Len(s)}

\* The chain with the distribution branch falling back to the last column.
ChooseFigLast(gtype, variables) ==
    LET y_vars == YVars(variables)
    IN  IF gtype = "scatter" THEN Fig("scatter", "Time", y_vars)
        ELSE IF gtype = "line" THEN Fig("line", "Time", y_vars)
        ELSE IF gtype = "distribution"
             THEN Fig("histogram", y_vars[Len(y_vars)], <<>>)
        ELSE Fig("scatter", "Time", <<"X">>)

\* The px call the if/elif chain of lines 111-121 makes.
ChooseFig(gtype, variables) ==
    LET y_vars == YVars(variables)
    IN  IF gtype = "scatter" THEN Fig("scatter", "Time", y_vars)
        ELSE IF gtype = "line" THEN Fig("line", "Time", y_vars)
        ELSE IF gtype = "distribution"
             THEN IF Len(y_vars) = 1
                  THEN Fig("histogram", y_vars[1], <<>>)
                  ELSE Fig("histogram", "X", <<>>)
        ELSE Fig("scatter", "Time", <<"X">>)

\* The columns a figure reads from the data frame it is given.
FigColumns(fig) == {fig.x} \cup Range(fig.y)

\* plotly express raises ValueError when an argument names no column of the
\* data frame; a frame with the columns and no rows is plotted as it is.
PxRaises(fig, columns) == ~(FigColumns(fig) \subseteq columns)

\* The number of series of a chart: one per dependent column, one for a
\* histogram, none for the blank plot.
Series(fig) ==
    IF fig.blank THEN 0
    ELSE IF fig.kind = "histogram" THEN 1
    ELSE Len(fig.y)

\* ----------------------------------------------------------- summary

NoData == [html |-> "No data available", count |-> 0]

\* The summary without the test for an empty window.
SummaryUnchecked(rows) == [html |-> "describe", count |-> Cardinality(rows)]

\* data.describe().to_html() if not data.empty else "No data available"
Summary(rows) ==
    IF rows = {} THEN NoData
    ELSE [html |-> "describe", count |-> Cardinality(rows)]

\* ------------------------------------------------------- try / except

Attempt(raised, value) == [raised |-> raised, value |-> value]

\* No handler: what was raised leaves the block.
Propagate(attempt, fallback) == attempt

\* try: ... except Exception: <fallback>
ExceptOr(attempt, fallback) ==
    IF attempt.raised THEN Attempt(FALSE, fallback) ELSE attempt

\* ------------------------------------------------------- the callback

\* update_graph(graph_type, data_variables, num_samples, prev_clicks, next_clicks)
update_graph(gtype, variables, samples, prev, next) ==
    LET start_idx == StartIdx(samples, prev, next, df.len)
        clamped   == ClampSamples(samples, df.len)
        data      == ExceptOr(Attempt(FALSE, ILoc(start_idx, start_idx + clamped, df.len)), {})
        chosen    == ChooseFig(gtype, variables)
        fig       == ExceptOr(Attempt(PxRaises(chosen, df.columns), chosen), BlankFig)
        summary   == ExceptOr(Attempt(FALSE, Summary(data.value)), NoData)
    IN  [start_idx   |-> start_idx,
         num_samples |-> clamped,
         rows        |-> data.value,
         fig         |-> fig.value,
         summary     |-> summary.value,
         returned    |-> ~(data.raised \/ fig.raised \/ summary.raised)]

\* The five inputs of an invocation.
Inputs == <<graph_type, data_variables, num_samples, prev_clicks, next_clicks>>

\* No invocation is remembered.
NoMemo == [set |-> FALSE, between |-> FALSE, inputs |-> <<>>, out |-> <<>>]

\* ------------------------------------------------------------ actions

\* Dash calls update_graph with the current values of the five inputs; the
\* callback reads df and assigns nothing outside its own locals.
Invoke(g, v, n, p, nx) ==
    /\ graph_type' = g
    /\ data_variables' = v
    /\ num_samples' = n
    /\ prev_clicks' = p
    /\ next_clicks' = nx
    /\ out' = update_graph(g, v, n, p, nx)
    /\ UNCHANGED df

\* Page load: the data set is loaded, the controls hold the layout's values
\* and Dash runs the callback once with them.
Init ==
    /\ df \in {LoadData(f) : f \in Files}
    /\ graph_type = "scatter"
    /\ data_variables = "all"
    /\ num_samples = DefaultSamples
    /\ prev_clicks = 0
    /\ next_clicks = 0
    /\ out = update_graph("scatter", "all", DefaultSamples, 0, 0)
    /\ memo = NoMemo

ChangeGraphType ==
    \E g \in GraphTypes \ {graph_type} :
        /\ Invoke(g, data_variables, num_samples, prev_clicks, next_clicks)
        /\ UNCHANGED memo

ChangeVariables ==
    \E v \in DataVariables \ {data_variables} :
        /\ Invoke(graph_type, v, num_samples, prev_clicks, next_clicks)
        /\ UNCHANGED memo

ChangeSamples ==
    \E n \in SampleCounts \ {num_samples} :
        /\ Invoke(graph_type, data_variables, n, prev_clicks, next_clicks)
        /\ UNCHANGED memo

ClickPrev ==
    /\ prev_clicks < MaxClicks
    /\ Invoke(graph_type, data_variables, num_samples, prev_clicks + 1, next_clicks)
    /\ UNCHANGED memo

ClickNext ==
    /\ next_clicks < MaxClicks
    /\ Invoke(graph_type, data_variables, num_samples, prev_clicks, next_clicks + 1)
    /\ UNCHANGED memo

Next ==
    \/ ChangeGraphType
    \/ ChangeVariables
    \/ ChangeSamples
    \/ ClickPrev
    \/ ClickNext

Spec == Init /\ [][Next]_vars

\* -------------------------------------------- remembering an invocation
\* SpecMemo runs the same callback and keeps, in memo, the inputs and the
\* result of one earlier invocation chosen at any moment, to compare with a
\* later invocation that has the same inputs.  The click counters only grow,
\* so a click makes the remembered inputs unrepeatable and memo is dropped.
\* The data-variables dropdown holds any of its values from the start.

\* An invocation happened after the remembered one.
Touch(m) == IF m.set THEN [m EXCEPT !.between = TRUE] ELSE m

InitMemo ==
    /\ df \in {LoadData(f) : f \in Files}
    /\ graph_type = "scatter"
    /\ data_variables \in DataVariables
    /\ num_samples = DefaultSamples
    /\ prev_clicks = 0
    /\ next_clicks = 0
    /\ out = update_graph("scatter", data_variables, DefaultSamples, 0, 0)
    /\ memo = NoMemo

Remember ==
    /\ memo' = [set |-> TRUE, between |-> FALSE, inputs |-> Inputs, out |-> out]
    /\ memo' # memo
    /\ UNCHANGED <<df, graph_type, data_variables, num_samples, prev_clicks, next_clicks, out>>

ChangeGraphTypeM ==
    \E g \in GraphTypes \ {graph_type} :
        /\ Invoke(g, data_variables, num_samples, prev_clicks, next_clicks)
        /\ memo' = Touch(memo)

ChangeSamplesM ==
    \E n \in SampleCounts \ {num_samples} :
        /\ Invoke(graph_type, data_variables, n, prev_clicks, next_clicks)
        /\ memo' = Touch(memo)

ClickPrevM ==
    /\ prev_clicks < MaxClicks
    /\ Invoke(graph_type, data_variables, num_samples, prev_clicks + 1, next_clicks)
    /\ memo' = NoMemo

ClickNextM ==
    /\ next_clicks < MaxClicks
    /\ Invoke(graph_type, data_variables, num_samples, prev_clicks, next_clicks + 1)
    /\ memo' = NoMemo

NextMemo ==
    \/ ChangeGraphTypeM
    \/ ChangeSamplesM
    \/ ClickPrevM
    \/ ClickNextM
    \/ Remember

SpecMemo == InitMemo /\ [][NextMemo]_vars

\* ------------------------------------------------------------ claims

\* The windowing procedure as the design states it: the sample count is
\* clamped first, and the clamped count is used in both adjustments.
Clamp(x, lo, hi) == Max(lo, Min(x, hi))

ProcedureStart(samples, prev, next, len) ==
    LET c  == Min(samples, len)
        s1 == IF next > 0 THEN Clamp(0 + c, 0, len - c) ELSE 0
    IN  IF prev > 0 THEN Max(0, s1 - c) ELSE s1

\* The dropdown values that name one of the columns X, Y, Z.
SingleColumns == {"X", "Y", "Z"}

\* C1: the sliced row range is a valid sub-range of the data set:
\* 0 <= start and start + clamped sample count <= data set length.
C1_ValidRange ==
    /\ 0 <= out.start_idx
    /\ out.start_idx + out.num_samples <= df.len

\* C2: the start index update_graph computes is the one of the design's
\* windowing procedure, which clamps the sample count before using it.
C2_StartAsProcedure ==
    out.start_idx = ProcedureStart(num_samples, prev_clicks, next_clicks, df.len)

\* C3: the window holds exactly min(requested sample count, data set length)
\* rows, the rows [start, start + clamped count), and is empty only when the
\* data set has no rows.
C3_WindowSize ==
    /\ Cardinality(out.rows) = Min(num_samples, df.len)
    /\ out.rows = out.start_idx..(out.start_idx + out.num_samples - 1)
    /\ (out.rows = {} => df.len = 0)

\* C4: whenever Next was never clicked or Previous was clicked at least once,
\* the window starts at row 0 and is [0, clamped sample count).
C4_StartZero ==
    (next_clicks = 0 \/ prev_clicks > 0) =>
        /\ out.start_idx = 0
        /\ out.rows = 0..(Min(num_samples, df.len) - 1)

\* Both buttons clicked with 10 samples of 100 rows: the Next step moved the
\* start to 10 and the Previous step took it back, leaving rows [0,10).
C4_Witness ==
    /\ next_clicks > 0 /\ prev_clicks > 0
    /\ num_samples = 10 /\ df.len = 100
    /\ out.start_idx = 0 /\ out.rows = 0..9

\* C5: click counts beyond 1 change nothing: the window for the counters
\* (prev_clicks, next_clicks) is the window for (min(prev_clicks, 1),
\* min(next_clicks, 1)).
C5_ClicksSaturate ==
    LET once == update_graph(graph_type, data_variables, num_samples,
                             Min(prev_clicks, 1), Min(next_clicks, 1))
    IN  /\ out.start_idx = once.start_idx
        /\ out.num_samples = once.num_samples
        /\ out.rows = once.rows

\* Next clicked twice on a data set with room for three windows: the window
\* is still the second one.
C5_Witness ==
    /\ next_clicks = 2 /\ prev_clicks = 0
    /\ num_samples = 10 /\ df.len = 100
    /\ out.rows = 10..19

\* The chart the selection table names for (graph type, variable selection).
TableFig(g, v) ==
    CASE g = "scatter" -> Fig("scatter", "Time", IF v = "all" THEN <<"X", "Y", "Z">> ELSE <<v>>)
      [] g = "line" -> Fig("line", "Time", IF v = "all" THEN <<"X", "Y", "Z">> ELSE <<v>>)
      [] g = "distribution" -> Fig("histogram", IF v = "all" THEN "X" ELSE v, <<>>)
      [] OTHER -> Fig("scatter", "Time", <<"X">>)

C7_SeriesCount ==
    SingleColumns \subseteq df.columns =>
        /\ data_variables = "all" => Series(out.fig) = 3
        /\ data_variables \in SingleColumns => Series(out.fig) = 1

\* C7, amended: on a data set with X, Y, Z, a scatter or line chart has 3
\* series for 'all' and 1 for a single column; a distribution plot and the
\* default chart of an unrecognized graph type have 1 series for either.
C7_SeriesCountByType ==
    (SingleColumns \subseteq df.columns /\ data_variables \in SingleColumns \cup {"all"}) =>
        IF graph_type \in {"scatter", "line"}
        THEN Series(out.fig) = (IF data_variables = "all" THEN 3 ELSE 1)
        ELSE Series(out.fig) = 1

\* A line chart of all variables over a non-empty window, with its 3 series.
C7_Witness ==
    /\ graph_type = "line" /\ data_variables = "all"
    /\ out.rows # {}
    /\ Series(out.fig) = 3 /\ out.fig.y = <<"X", "Y", "Z">>

C9_AlwaysReturnsPair ==
    /\ out.returned
    /\ PxRaises(ChooseFig(graph_type, data_variables), df.columns) => out.fig = BlankFig
    /\ out.rows = {} => out.summary = NoData
    /\ out.rows # {} => out.summary.html = "describe"

\* A selection naming no column on a data set with rows: the chart
\* construction raised, and the blank chart came back with a summary.
C9_Witness ==
    /\ data_variables = "W" /\ graph_type = "line" /\ df.len > 0
    /\ out.returned /\ out.fig = BlankFig /\ out.summary.html = "describe"

\* The same inputs as the remembered invocation give its result.
SameInputsSameOutputs == (memo.set /\ memo.inputs = Inputs) => memo.out = out

====
